---- MODULE Spec2Model ----
(***************************************************************************)
(* Egypt air-quality dashboards: the three front-end scripts of the        *)
(* repository (app.py over Azure Synapse, application.py and               *)
(* streamlit_app.py over generated data), their data operations, the      *)
(* report they format from the rows, the keyword responder and the chart.  *)
(*                                                                         *)
(* Numbers.  A measurement is kept in hundredths of its unit (27.0 is      *)
(* 2700, 12.01 is 1201).  An average is an exact fraction [num, den] of    *)
(* hundredths in lowest terms, so two averages are equal as records iff    *)
(* they are equal as numbers; binary floating-point rounding is not        *)
(* modelled.  Time is counted in hours; a day is 24 of them.               *)
(* Unit texts are written in ASCII: "ug/m3" stands for the micro-gram per  *)
(* cubic metre suffix, "degC" for the degree-Celsius suffix.               *)
(***************************************************************************)
EXTENDS Integers, Sequences, FiniteSets, TLC

VARIABLES
    frontend,    \* which script this process runs: "app", "application", "streamlit"
    environ,     \* the SYNAPSE_* variables set in the environment of the process (app.py)
    store,       \* rows of dbo.IoT_AirQuality (externally owned; app.py only)
    clock,       \* current time in hours (datetime.now() / GETDATE())
    collation,   \* collation of the SQL pool the region column is compared under
    dbStatus,    \* "ok", "unreachable" (connect fails) or "noschema" (read_sql fails)
    rng,         \* state of the module-level generator of Python's random
    call,        \* the data operation the caller made: its inputs and what it returned or raised
    again,       \* the same operation called once more with the same inputs
    context,     \* the report built from the rows of call
    connections, \* connections this process has opened and not closed (app.py)
    analysis,    \* the answer analyze_air_quality gave to the prompt
    chart        \* the chart analyze_air_quality gave with it

vars == <<frontend, environ, store, clock, collation, dbStatus, rng, call, again, context,
          connections, analysis, chart>>

----------------------------------------------------------------------------
(* Bounds of the model *)

MaxStore == 2          \* most rows the store holds
MaxClock == 1          \* hours the clock may advance after the start
MaxDays == 2           \* largest window (the sliders allow 1..90)
RngPeriod == 5         \* number of generator states that are told apart

StartHour == 72        \* the hour the process starts at

HoursPerDay == 24

----------------------------------------------------------------------------
(* Exact fractions *)

Abs(x) == IF x < 0 THEN -x ELSE x

RECURSIVE Gcd(_, _)
Gcd(a, b) == IF b = 0 THEN a ELSE Gcd(b, a % b)

\* the fraction n/d (d > 0) in lowest terms
Frac(n, d) ==
    LET g == Gcd(Abs(n), d)
    IN  [null |-> FALSE, num |-> n \div g, den |-> d \div g]

\* SQL NULL / the NaN or None pandas shows for it
NullValue == [null |-> TRUE, num |-> 0, den |-> 1]

FromInt(n) == Frac(n, 1)
FracAdd(a, b) ==
    LET l == (a.den \div Gcd(a.den, b.den)) * b.den
    IN  Frac(a.num * (l \div a.den) + b.num * (l \div b.den), l)
FracNeg(a) == Frac(-a.num, a.den)
FracMul(a, b) == Frac(a.num * b.num, a.den * b.den)
FracLe(a, b) == a.num * b.den <= b.num * a.den
FracMax(a, b) == IF FracLe(a, b) THEN b ELSE a
FracMin(a, b) == IF FracLe(a, b) THEN a ELSE b

----------------------------------------------------------------------------
(* The store: dbo.IoT_AirQuality *)

\* A stored measurement is text (or SQL NULL): a number followed by a suffix,
\* an empty text followed by a suffix, or a text that is no number at all.
Num(v, suffix) == [kind |-> "num", val |-> v, suffix |-> suffix]
Empty(suffix) == [kind |-> "empty", val |-> 0, suffix |-> suffix]
BadText == [kind |-> "text", val |-> 0, suffix |-> ""]
SqlNull == [kind |-> "null", val |-> 0, suffix |-> ""]

Columns == {"pm25", "pm10", "no2", "co2", "temperature", "humidity"}

\* the unit each column's REPLACE pair strips
UnitOf(col) ==
    CASE col \in {"pm25", "pm10", "no2"} -> "ug/m3"
      [] col = "co2" -> "ppm"
      [] col = "temperature" -> "degC"
      [] OTHER -> "%"

\* REPLACE(REPLACE(x, ' unit', ''), 'unit', ''): NULL stays NULL, the suffix
\* goes when it is the column's unit with or without the blank, any other
\* suffix stays
StripUnit(raw, unit) ==
    IF raw.kind = "null" THEN raw
    ELSE IF raw.suffix = " " \o unit THEN [raw EXCEPT !.suffix = ""]
    ELSE IF raw.suffix = unit THEN [raw EXCEPT !.suffix = ""]
    ELSE raw

\* CAST(x AS FLOAT) of T-SQL: NULL gives NULL, a number text its value, the
\* empty text 0; any other text raises "Error converting data type varchar to
\* float" (ok = FALSE), which aborts the statement
CastFloat(raw) ==
    IF raw.kind = "null" THEN [ok |-> TRUE, value |-> NullValue]
    ELSE IF raw.suffix # "" \/ raw.kind = "text" THEN [ok |-> FALSE, value |-> NullValue]
    ELSE IF raw.kind = "empty" THEN [ok |-> TRUE, value |-> FromInt(0)]
    ELSE [ok |-> TRUE, value |-> FromInt(raw.val)]

Coerce(r, col) == CastFloat(StripUnit(r[col], UnitOf(col)))

Reading(region, ts, pm25, pm10, no2, co2, temperature, humidity) ==
    [region |-> region, timestamp |-> ts, pm25 |-> pm25, pm10 |-> pm10,
     no2 |-> no2, co2 |-> co2, temperature |-> temperature, humidity |-> humidity]

\* The rows the environment may put into the store.  Timestamps are relative
\* to StartHour: a day back, two days back, recent, one hour ahead, long ago.
ReadingPool ==
    { Reading("Delta", StartHour - 24, Num(2700, " ug/m3"), Num(6000, " ug/m3"),
              Num(2200, "ug/m3"), Num(34000, " ppm"), Num(2550, " degC"), Num(6000, " %")),
      Reading("Delta", StartHour - 48, BadText, Num(6200, " ug/m3"),
              Num(2000, "ug/m3"), Num(35000, "ppm"), Num(2600, " degC"), Num(5800, "%")),
      Reading("Delta", StartHour - 1, SqlNull, SqlNull,
              Num(2100, ""), Num(34500, ""), Num(2500, ""), SqlNull),
      Reading("delta", StartHour - 2, Num(1200, "ug/m3"), Num(5000, ""),
              Num(2300, " ug/m3"), Num(33000, " ppm"), Num(2400, "degC"), Num(6100, " %")),
      Reading("Red Sea", StartHour + 1, Num(3501, " ug/m3"), Num(10001, " ug/m3"),
              Num(700, " ug/m3"), Num(30000, " ppm"), Num(2800, " degC"), Num(3700, " %")),
      Reading("Red Sea", StartHour - 3, Num(1201, ""), Num(5001, ""),
              Empty("ug/m3"), Num(30100, " ppm"), Num(2900, " degC"), Num(3600, " %")),
      Reading("Greater Cairo", StartHour - 4, Num(3500, " ug/m3"), Num(10000, " ug/m3"),
              Num(6300, " ug/m3"), Num(51000, " ppm"), Num(2500, " degC"), Num(4000, " %")),
      Reading("Greater Cairo", StartHour - 100, BadText, Num(11000, " ug/m3"),
              Num(6300, " ug/m3"), Num(51000, " mg"), Num(2500, " degC"), Num(4000, " %")) }

\* the region column compared under a case-insensitive collation
Fold(name) == IF name = "delta" THEN "Delta" ELSE name

\* "a = b" of T-SQL on the region column: under the collation of the pool
\* (the query gives no COLLATE clause)
CollationEq(coll, a, b) == IF coll = "CI" THEN Fold(a) = Fold(b) ELSE a = b

\* region names in ascending order
SortedNames ==
    <<"Canal Cities", "Delta", "Greater Cairo", "New Valley", "North Coast",
      "Red Sea", "Sinai", "Upper Egypt">>

\* place of a name in ascending order; names that differ in case only share it
NameRank(name) == CHOOSE i \in 1..Len(SortedNames) : SortedNames[i] = Fold(name)

----------------------------------------------------------------------------
(* app.py: AirQualityQueries.get_air_quality_summary over SynapseConnection *)

\* "if region and region != 'All Regions'": None and '' (both written "" here)
\* and the literal "All Regions" ask for every region
HasRegionFilter(region) == region # "" /\ region # "All Regions"

\* InCutoff with the start of the window left out (> for >=)
InCutoffStrict(r, days, now) == r.timestamp > now - days * HoursPerDay

\* WHERE CAST(timestamp as DATETIME) >= DATEADD(day, -days, GETDATE())
InCutoff(r, days, now) == r.timestamp >= now - days * HoursPerDay

\* the rows the WHERE clause keeps
Selected(st, coll, region, days, now) ==
    { r \in st : /\ InCutoff(r, days, now)
                 /\ HasRegionFilter(region) => CollationEq(coll, r.region, region) }

\* some column of some row of rs does not convert
CastFails(rs) == \E r \in rs : \E col \in Columns : ~Coerce(r, col).ok

\* GROUP BY region: the rows of rs that compare equal to r on region
GroupOf(rs, coll, r) == { q \in rs : CollationEq(coll, q.region, r.region) }
Groups(rs, coll) == { GroupOf(rs, coll, r) : r \in rs }

RECURSIVE SumOf(_, _)
SumOf(g, col) ==
    IF g = {} THEN FromInt(0)
    ELSE LET r == CHOOSE q \in g : TRUE
         IN  FracAdd(Coerce(r, col).value, SumOf(g \ {r}, col))

\* AVG(CAST(...)): over the rows whose value is not NULL, NULL when there is none
AvgOf(g, col) ==
    LET vals == { r \in g : ~Coerce(r, col).value.null }
    IN  IF vals = {} THEN NullValue
        ELSE FracMul(SumOf(vals, col), Frac(1, Cardinality(vals)))

MinTs(g) == CHOOSE t \in { r.timestamp : r \in g } : \A r \in g : t <= r.timestamp
MaxTs(g) == CHOOSE t \in { r.timestamp : r \in g } : \A r \in g : t >= r.timestamp

\* one result row of the SELECT for the group g, shown under the name `name`
SummaryRow(g, name) ==
    [Region |-> name,
     Avg_PM2_5 |-> AvgOf(g, "pm25"),
     Avg_PM10 |-> AvgOf(g, "pm10"),
     Avg_NO2 |-> AvgOf(g, "no2"),
     Avg_CO2 |-> AvgOf(g, "co2"),
     Avg_Temperature |-> AvgOf(g, "temperature"),
     Avg_Humidity |-> AvgOf(g, "humidity"),
     Readings_Count |-> Cardinality(g),
     Period_Start |-> MinTs(g),
     Period_End |-> MaxTs(g)]

\* ORDER BY region: every arrangement of the rows that ascends by name (rows
\* whose names differ in case only may come in either order)
Orderings(rows) ==
    { s \in [1..Cardinality(rows) -> rows] :
        /\ \A i, j \in DOMAIN s : i # j => s[i] # s[j]
        /\ \A i, j \in DOMAIN s : i < j => NameRank(s[i].Region) <= NameRank(s[j].Region) }

\* The results the statement may give for the kept rows: a group whose rows
\* spell the region differently is shown under any one of those spellings.
SummaryResults(rs, coll) ==
    LET gs == Groups(rs, coll)
        namings == { f \in [gs -> { r.region : r \in rs }] :
                       \A g \in gs : f[g] \in { r.region : r \in g } }
    IN  UNION { Orderings({ SummaryRow(g, f[g]) : g \in gs }) : f \in namings }

Raised(err) == [status |-> "error", error |-> err, rows |-> <<>>]
Returned(rows) == [status |-> "ok", error |-> "", rows |-> rows]

\* SynapseConnection.execute_query running the summary statement: pyodbc.connect
\* raises when the pool cannot be reached, read_sql raises when the table or a
\* column is missing or when a CAST fails; every exception is re-raised.
\* A CAST on a row the WHERE clause drops fails the statement or not, as the
\* plan evaluates it before or after the filter: both outcomes are possible.
GetAirQualitySummary(st, coll, db, region, days, now) ==
    LET rs == Selected(st, coll, region, days, now)
    IN  IF db = "unreachable" THEN { Raised("connect") }
        ELSE IF db = "noschema" THEN { Raised("schema") }
        ELSE IF CastFails(rs) THEN { Raised("convert") }
        ELSE (IF CastFails(st) THEN { Raised("convert") } ELSE {})
             \cup { Returned(rows) : rows \in SummaryResults(rs, coll) }

\* the variables SynapseConnection.__init__ reads
SynapseVariables ==
    {"SYNAPSE_SERVER", "SYNAPSE_DATABASE", "SYNAPSE_USERNAME", "SYNAPSE_PASSWORD"}

\* os.getenv(name, default): the value of the variable (written as its name)
\* when the environment sets it, the default otherwise
Getenv(env, name, default) == IF name \in env THEN name ELSE default

\* SynapseConnection.get_connection_string: what pyodbc.connect is called with
ConnectionString(env) ==
    [Server |-> Getenv(env, "SYNAPSE_SERVER", "iotsynaps.sql.azuresynapse.net"),
     Database |-> Getenv(env, "SYNAPSE_DATABASE", "your-database-name"),
     Uid |-> Getenv(env, "SYNAPSE_USERNAME", "your-username"),
     Pwd |-> Getenv(env, "SYNAPSE_PASSWORD", "your-password")]

\* no call of pyodbc.connect
NoConnect == [Server |-> "", Database |-> "", Uid |-> "", Pwd |-> ""]

\* SynapseConnection.execute_query: connections it leaves open when it exits.
\* conn.close() follows read_sql in the try block: it runs when read_sql
\* returned, and is skipped when read_sql raised (connect having succeeded).
LeftOpen(res) == IF res.status = "error" /\ res.error # "connect" THEN 1 ELSE 0

\* ConnectAttempts with a second attempt after a failure
ConnectAttemptsRetry(res) == IF res.status = "error" THEN 2 ELSE 1

\* SynapseConnection.execute_query: the calls of pyodbc.connect it makes.  The
\* try block holds one call and no loop, and the except clause re-raises.
ConnectAttempts(res) == 1

\* SynapseConnection.execute_query: the times it runs the statement: read_sql
\* is called once, when connect returned
QueriesRun(res) == IF res.status = "error" /\ res.error = "connect" THEN 0 ELSE 1

\* CAST(timestamp AS DATE): the day an hour lies in
DateOf(ts) == ts \div HoursPerDay

\* one result row of get_pollutant_trends for the rows g of the day d
TrendRow(g, d) ==
    [Date |-> d, Avg_Pollutant |-> AvgOf(g, "pm25"), Readings |-> Cardinality(g)]

\* the rows get_pollutant_trends(region, 'pm25', days) gives for the kept rows
\* rs: one per day, ORDER BY Date
TrendRows(rs) ==
    LET dates == { DateOf(r.timestamp) : r \in rs }
        order == CHOOSE s \in [1..Cardinality(dates) -> dates] :
                    \A i, j \in DOMAIN s : i < j => s[i] < s[j]
    IN  [i \in 1..Cardinality(dates) |->
            TrendRow({ r \in rs : DateOf(r.timestamp) = order[i] }, order[i])]

\* AirQualityQueries.get_pollutant_trends(region, 'pm25', days) through
\* execute_query: the same lower bound on the timestamp, the region compared
\* under the collation of the pool, pm25 the only column that is cast
GetPollutantTrends(st, coll, db, region, days, now) ==
    LET rs == { r \in st : InCutoff(r, days, now) /\ CollationEq(coll, r.region, region) }
    IN  IF db = "unreachable" THEN { Raised("connect") }
        ELSE IF db = "noschema" THEN { Raised("schema") }
        ELSE IF \E r \in rs : ~Coerce(r, "pm25").ok THEN { Raised("convert") }
        ELSE (IF \E r \in st : ~Coerce(r, "pm25").ok THEN { Raised("convert") } ELSE {})
             \cup { Returned(TrendRows(rs)) }

----------------------------------------------------------------------------
(* application.py and streamlit_app.py: generated rows *)

EGYPT_REGIONS ==
    <<"Red Sea", "Delta", "Greater Cairo", "Sinai", "New Valley",
      "Upper Egypt", "North Coast", "Canal Cities">>

Base(pm25, pm10, no2, co2, temp, humidity) ==
    [pm25 |-> FromInt(pm25 * 100), pm10 |-> FromInt(pm10 * 100), no2 |-> FromInt(no2 * 100),
     co2 |-> FromInt(co2 * 100), temp |-> FromInt(temp), humidity |-> FromInt(humidity * 100)]

\* base_data (temp is given in hundredths here: 25.5 is among its values)
base_data ==
    [reg \in { EGYPT_REGIONS[i] : i \in DOMAIN EGYPT_REGIONS } |->
        CASE reg = "Red Sea" -> Base(9, 20, 7, 300, 2800, 37)
          [] reg = "Delta" -> Base(27, 60, 22, 340, 2550, 60)
          [] reg = "Greater Cairo" -> Base(56, 110, 63, 510, 2500, 40)
          [] reg = "Sinai" -> Base(11, 24, 5, 280, 3000, 31)
          [] reg = "New Valley" -> Base(24, 52, 9, 340, 3300, 21)
          [] reg = "Upper Egypt" -> Base(23, 49, 13, 315, 3100, 25)
          [] reg = "North Coast" -> Base(8, 19, 5, 300, 2500, 69)
          [] OTHER -> Base(17, 40, 21, 355, 2700, 51)]

\* random.random() in generator state s, and the state n draws later
Random(s) == Frac(s % RngPeriod, RngPeriod)
Advance(s, n) == (s + n) % RngPeriod

\* random.uniform(-v, v) = -v + (v - (-v)) * random()
Uniform(v, s) == FracAdd(FracNeg(v), FracMul(FracAdd(v, v), Random(s)))

\* random.randint(a, b): a value of a..b the generator state decides
RandInt(a, b, s) == a + ((s % RngPeriod) * (b - a + 1)) \div RngPeriod

\* base * (1 + random.uniform(-v, v))
Varied(base, v, s) == FracMul(base, FracAdd(FromInt(1), Uniform(v, s)))

HourOf(now) == now % HoursPerDay

\* application.py: variation = 0.15 * (0.5 + 0.5 * abs(time_factor - 0.5) / 0.5),
\* time_factor = hour / 24 at a full hour
Variation(now) == FracMul(Frac(15, 100), FracAdd(Frac(1, 2), Frac(Abs(2 * HourOf(now) - 24), 48)))

\* streamlit_app.py: day_variation = 0.1 + 0.05 * (hour / 24)
DayVariation(now) == FracAdd(Frac(1, 10), FracMul(Frac(5, 100), Frac(HourOf(now), 24)))

Third(v) == FracMul(v, Frac(1, 3))

\* the row application.py appends for reg, its seven draws starting in state s
MockRow(reg, days, now, s) ==
    LET base == base_data[reg]
        v == Variation(now)
    IN  [Region |-> reg,
         Avg_PM2_5 |-> FracMax(FromInt(100), Varied(base.pm25, v, s)),
         Avg_PM10 |-> FracMax(FromInt(100), Varied(base.pm10, v, s + 1)),
         Avg_NO2 |-> FracMax(FromInt(100), Varied(base.no2, v, s + 2)),
         Avg_CO2 |-> FracMax(FromInt(25000), Varied(base.co2, Third(v), s + 3)),
         Avg_Temperature |-> Varied(base.temp, Frac(8, 100), s + 4),
         Avg_Humidity |-> FracMax(FromInt(1000),
                             FracMin(FromInt(9500), Varied(base.humidity, Frac(15, 100), s + 5))),
         Readings_Count |-> RandInt(45, 180, s + 6),
         Period_Start |-> now - days * HoursPerDay,
         Period_End |-> now]

DrawsPerRow == 7

\* regions_to_show = [region] if region and region != "All Regions" else the list
RegionsToShow(region) == IF HasRegionFilter(region) THEN <<region>> ELSE EGYPT_REGIONS

Known(reg) == reg \in DOMAIN base_data

\* MockAirQualityData.generate_mock_summary: one row per region to show, in the
\* order of the list; base_data[reg] raises KeyError for a name it does not hold
GenerateMockSummary(region, days, now, s) ==
    LET regs == RegionsToShow(region)
    IN  IF \E i \in DOMAIN regs : ~Known(regs[i]) THEN Raised("KeyError")
        ELSE Returned([i \in DOMAIN regs |->
                         MockRow(regs[i], days, now, s + DrawsPerRow * (i - 1))])

\* the generator state after generate_mock_summary or get_environmental_data
AfterRows(region, s) ==
    LET regs == RegionsToShow(region)
    IN  Advance(s, DrawsPerRow * Cardinality({ i \in DOMAIN regs : Known(regs[i]) }))

\* the row streamlit_app.py appends for reg
EnvRow(reg, now, s) ==
    LET base == base_data[reg]
        v == DayVariation(now)
    IN  [Region |-> reg,
         PM2_5 |-> FracMax(FromInt(100), Varied(base.pm25, v, s)),
         PM10 |-> FracMax(FromInt(100), Varied(base.pm10, v, s + 1)),
         NO2 |-> FracMax(FromInt(100), Varied(base.no2, v, s + 2)),
         CO2 |-> FracMax(FromInt(25000), Varied(base.co2, Third(v), s + 3)),
         Temperature |-> Varied(base.temp, Frac(8, 100), s + 4),
         Humidity |-> FracMax(FromInt(1000),
                         FracMin(FromInt(9500), Varied(base.humidity, Frac(15, 100), s + 5))),
         Readings |-> RandInt(80, 200, s + 6),
         Last_Update |-> now]

\* EgyptAirQualityAI.get_environmental_data: a row for every region to show
\* that base_data holds, in the order of the list; other names are skipped
GetEnvironmentalData(region, now, s) ==
    LET regs == SelectSeq(RegionsToShow(region), Known)
    IN  Returned([i \in DOMAIN regs |-> EnvRow(regs[i], now, s + DrawsPerRow * (i - 1))])

----------------------------------------------------------------------------
(* The report: prepare_data_context, and the metrics of streamlit_app.py *)

\* the value v as a whole number of hundredths compared with n units
LeUnits(v, n) == FracLe(v, FromInt(n * 100))

\* Pm25Status with the bands closed on the wrong side (< for <=)
Pm25StatusStrict(v) ==
    IF ~v.null /\ ~FracLe(FromInt(12 * 100), v) THEN "Good"
    ELSE IF ~v.null /\ ~FracLe(FromInt(35 * 100), v) THEN "Moderate"
    ELSE "Poor"

\* Pm25Status with the tests written as "not above": NaN passes the first
Pm25StatusNotAbove(v) ==
    IF v.null \/ LeUnits(v, 12) THEN "Good"
    ELSE IF LeUnits(v, 35) THEN "Moderate"
    ELSE "Poor"

\* "Good" if v <= 12 else "Moderate" if v <= 35 else "Poor"; every comparison
\* with NaN is false
Pm25Status(v) ==
    IF ~v.null /\ LeUnits(v, 12) THEN "Good"
    ELSE IF ~v.null /\ LeUnits(v, 35) THEN "Moderate"
    ELSE "Poor"

\* Pm10Status with the breakpoints of PM2.5 copied into it
Pm10StatusCopied(v) ==
    IF ~v.null /\ LeUnits(v, 12) THEN "Good"
    ELSE IF ~v.null /\ LeUnits(v, 35) THEN "Moderate"
    ELSE "Poor"

\* "Good" if v <= 50 else "Moderate" if v <= 100 else "Poor"
Pm10Status(v) ==
    IF ~v.null /\ LeUnits(v, 50) THEN "Good"
    ELSE IF ~v.null /\ LeUnits(v, 100) THEN "Moderate"
    ELSE "Poor"

\* f"{v:.1f}": the number of tenths nearest to v (ties to even), "nan" for NaN
Fmt1(v) ==
    IF v.null THEN [nan |-> TRUE, tenths |-> 0]
    ELSE LET d == 10 * v.den
             q == v.num \div d
             twice == 2 * (v.num - q * d)
         IN  [nan |-> FALSE,
              tenths |-> IF twice < d \/ (twice = d /\ q % 2 = 0) THEN q ELSE q + 1]

AvgColumns ==
    {"Avg_PM2_5", "Avg_PM10", "Avg_NO2", "Avg_CO2", "Avg_Temperature", "Avg_Humidity"}

\* pandas keeps a result column in which every value is NULL as objects
\* (None), and any other column as floats with NaN for NULL
IsNone(rows, col) == rows # <<>> /\ \A i \in DOMAIN rows : rows[i][col].null

\* the section app.py writes for one row
AppSection(row) ==
    [Region |-> row.Region,
     Temperature |-> Fmt1(row.Avg_Temperature),
     Humidity |-> Fmt1(row.Avg_Humidity),
     PM2_5 |-> Fmt1(row.Avg_PM2_5),
     pm25_status |-> Pm25Status(row.Avg_PM2_5),
     PM10 |-> Fmt1(row.Avg_PM10),
     pm10_status |-> Pm10Status(row.Avg_PM10),
     NO2 |-> Fmt1(row.Avg_NO2),
     CO2 |-> Fmt1(row.Avg_CO2),
     Readings |-> row.Readings_Count,
     Period_Start |-> row.Period_Start,
     Period_End |-> row.Period_End]

NoContext ==
    [kind |-> "none", days |-> 0, lastQuery |-> 0, noData |-> FALSE,
     sections |-> <<>>, error |-> ""]

Report(days, now, noData, sections) ==
    [kind |-> "report", days |-> days, lastQuery |-> now, noData |-> noData,
     sections |-> sections, error |-> ""]

\* the "Database Connection Error" text with str(e)
ErrorText(days, now, err) ==
    [kind |-> "connection_error", days |-> days, lastQuery |-> now, noData |-> FALSE,
     sections |-> <<>>, error |-> err]

\* an exception that leaves prepare_data_context
Propagated(days, now, err) ==
    [kind |-> "raised", days |-> days, lastQuery |-> now, noData |-> FALSE,
     sections |-> <<>>, error |-> err]

\* AppPrepareDataContext without the test for an empty frame
AppPrepareDataContextNoMarker(res, days, now) ==
    IF res.status = "error" THEN ErrorText(days, now, res.error)
    ELSE IF \E col \in AvgColumns : IsNone(res.rows, col)
         THEN ErrorText(days, now, "TypeError")
    ELSE Report(days, now, FALSE, [i \in DOMAIN res.rows |-> AppSection(res.rows[i])])

\* app.py, AirQualityAnalyzer.prepare_data_context, given what the query did:
\* any exception of the try block gives the connection-error text, also the
\* TypeError of comparing or formatting None
AppPrepareDataContext(res, days, now) ==
    IF res.status = "error" THEN ErrorText(days, now, res.error)
    ELSE IF res.rows = <<>> THEN Report(days, now, TRUE, <<>>)
    ELSE IF \E col \in AvgColumns : IsNone(res.rows, col)
         THEN ErrorText(days, now, "TypeError")
    ELSE Report(days, now, FALSE, [i \in DOMAIN res.rows |-> AppSection(res.rows[i])])

\* the section application.py writes for one row (it shows no period)
MockSection(row) ==
    [Region |-> row.Region,
     Temperature |-> Fmt1(row.Avg_Temperature),
     Humidity |-> Fmt1(row.Avg_Humidity),
     PM2_5 |-> Fmt1(row.Avg_PM2_5),
     pm25_status |-> Pm25Status(row.Avg_PM2_5),
     PM10 |-> Fmt1(row.Avg_PM10),
     pm10_status |-> Pm10Status(row.Avg_PM10),
     NO2 |-> Fmt1(row.Avg_NO2),
     CO2 |-> Fmt1(row.Avg_CO2),
     Readings |-> row.Readings_Count]

\* application.py, AirQualityAnalyzer.prepare_data_context: no try block, no
\* test for an empty frame
MockPrepareDataContext(res, days, now) ==
    IF res.status = "error" THEN Propagated(days, now, res.error)
    ELSE Report(days, now, FALSE, [i \in DOMAIN res.rows |-> MockSection(res.rows[i])])

RECURSIVE SeqSum(_, _, _)
SeqSum(rows, col, n) ==
    IF n = 0 THEN FromInt(0) ELSE FracAdd(rows[n][col], SeqSum(rows, col, n - 1))

\* data_df[col].mean() of a frame that is not empty
Mean(rows, col) == FracMul(SeqSum(rows, col, Len(rows)), Frac(1, Len(rows)))

\* streamlit_app.py, _health_analysis: the status line
HealthStatus(rows) ==
    IF rows = <<>> THEN "Data unavailable"
    ELSE IF LeUnits(Mean(rows, "PM2_5"), 12) THEN "Good"
    ELSE IF LeUnits(Mean(rows, "PM2_5"), 35) THEN "Moderate"
    ELSE "Poor"

\* streamlit_app.py, main: the label of the "Average PM2.5" metric
QuickStatus(avg) ==
    IF LeUnits(avg, 12) THEN "Good" ELSE IF LeUnits(avg, 35) THEN "Moderate" ELSE "Poor"

Categories == {"temperature", "comparison", "health", "region", "general"}

\* streamlit_app.py, main with the analyze button: the quick metrics when the
\* frame is not empty, then the analysis of the category the prompt falls in
StreamlitContext(res, days, now, category) ==
    [kind |-> "metrics", days |-> days, lastQuery |-> now,
     noData |-> res.rows = <<>>, sections |-> <<>>, error |-> "",
     avg_pm25 |-> IF res.rows = <<>> THEN NullValue ELSE Mean(res.rows, "PM2_5"),
     pm25_status |-> IF res.rows = <<>> THEN "" ELSE QuickStatus(Mean(res.rows, "PM2_5")),
     total_readings |-> IF res.rows = <<>> THEN 0
                        ELSE SeqSum([i \in DOMAIN res.rows |->
                                       [Readings |-> FromInt(res.rows[i].Readings)]],
                                    "Readings", Len(res.rows)).num,
     category |-> category,
     health_status |-> IF category = "health" THEN HealthStatus(res.rows) ELSE ""]

----------------------------------------------------------------------------
(* The responder: SmartAIResponder.generate_response (app.py, application.py) *)
(* and EgyptAirQualityAI.generate_ai_analysis (streamlit_app.py).  A prompt  *)
(* and a keyword are sequences of characters.                                 *)

UpperCase ==
    <<"A", "B", "C", "D", "E", "F", "G", "H", "I", "J", "K", "L", "M", "N", "O", "P", "Q", "R",
      "S", "T", "U", "V", "W", "X", "Y", "Z">>
LowerCase ==
    <<"a", "b", "c", "d", "e", "f", "g", "h", "i", "j", "k", "l", "m", "n", "o", "p", "q", "r",
      "s", "t", "u", "v", "w", "x", "y", "z">>

\* str.lower() on one character and on a text
LowerChar(c) ==
    IF \E i \in DOMAIN UpperCase : UpperCase[i] = c
    THEN LowerCase[CHOOSE i \in DOMAIN UpperCase : UpperCase[i] = c]
    ELSE c
Lower(p) == [i \in DOMAIN p |-> LowerChar(p[i])]

\* "word in prompt_lower": the word is a run of consecutive characters of p
Contains(p, word) ==
    \E i \in 1..(Len(p) - Len(word) + 1) : SubSeq(p, i, i + Len(word) - 1) = word

\* any(word in prompt_lower for word in words)
AnyWord(p, words) == \E word \in words : Contains(p, word)

\* the keyword lists of the four branches, as each script writes them
TemperatureWords(fe) ==
    {<<"t", "e", "m", "p", "e", "r", "a", "t", "u", "r", "e">>,
     <<"t", "e", "m", "p">>,
     <<"h", "o", "t">>,
     <<"c", "o", "l", "d">>}
    \cup (IF fe = "app" THEN {} ELSE {<<"w", "a", "r", "m">>})
ComparisonWords(fe) ==
    IF fe = "streamlit"
    THEN {<<"c", "o", "m", "p", "a", "r", "e">>,
          <<"r", "a", "n", "k", "i", "n", "g">>,
          <<"v", "e", "r", "s", "u", "s">>,
          <<"v", "s">>,
          <<"b", "e", "s", "t">>,
          <<"w", "o", "r", "s", "t">>}
    ELSE {<<"c", "o", "m", "p", "a", "r", "e">>,
          <<"c", "o", "m", "p", "a", "r", "i", "s", "o", "n">>,
          <<"v", "e", "r", "s", "u", "s">>,
          <<"v", "s">>}
HealthWords(fe) ==
    {<<"h", "e", "a", "l", "t", "h">>,
     <<"r", "i", "s", "k">>,
     <<"s", "a", "f", "e">>,
     <<"d", "a", "n", "g", "e", "r">>}
    \cup (IF fe = "streamlit" THEN {<<"r", "e", "c", "o", "m", "m", "e", "n", "d">>} ELSE {})
RegionWords(fe) ==
    {<<"r", "e", "g", "i", "o", "n">>,
     <<"a", "r", "e", "a">>,
     <<"l", "o", "c", "a", "t", "i", "o", "n">>}
    \cup (IF fe = "streamlit" THEN {<<"t", "e", "l", "l", " ", "a", "b", "o", "u",
      "t">>} ELSE {})

\* ResponseCategory with the health branch tested before the comparison branch
ResponseCategoryHealthFirst(fe, prompt) ==
    LET p == Lower(prompt)
    IN  IF AnyWord(p, TemperatureWords(fe)) THEN "temperature"
        ELSE IF AnyWord(p, HealthWords(fe)) THEN "health"
        ELSE IF AnyWord(p, ComparisonWords(fe)) THEN "comparison"
        ELSE IF AnyWord(p, RegionWords(fe)) THEN "region"
        ELSE "general"

\* the branch of the if / elif chain the prompt takes
ResponseCategory(fe, prompt) ==
    LET p == Lower(prompt)
    IN  IF AnyWord(p, TemperatureWords(fe)) THEN "temperature"
        ELSE IF AnyWord(p, ComparisonWords(fe)) THEN "comparison"
        ELSE IF AnyWord(p, HealthWords(fe)) THEN "health"
        ELSE IF AnyWord(p, RegionWords(fe)) THEN "region"
        ELSE "general"

\* the method the branch calls exists: SmartAIResponder of app.py defines
\* _generate_temperature_response, _generate_comparison_response,
\* _generate_health_response and _generate_general_response, and no
\* _generate_region_response
HasTemplate(fe, category) == ~(fe = "app" /\ category = "region")

NoAnalysis ==
    [kind |-> "none", prompt |-> <<>>, use_ai |-> FALSE, category |-> "", error |-> ""]

\* the template of the category, filled with the data context and the prompt
Template(prompt, category) ==
    [kind |-> "template", prompt |-> prompt, use_ai |-> TRUE, category |-> category,
     error |-> ""]

\* the data summary analyze writes when use_ai is off
Summary(prompt) ==
    [kind |-> "summary", prompt |-> prompt, use_ai |-> FALSE, category |-> "", error |-> ""]

\* SystemError without the try block of analyze_air_quality: the exception
\* leaves the callback
SystemErrorUncaught(prompt, use_ai, category, err) ==
    [kind |-> "raised", prompt |-> prompt, use_ai |-> use_ai, category |-> category,
     error |-> err]

\* the "System Error" / "Error" text analyze_air_quality returns for an
\* exception that left analyze
SystemError(prompt, use_ai, category, err) ==
    [kind |-> "system_error", prompt |-> prompt, use_ai |-> use_ai, category |-> category,
     error |-> err]

\* generate_response(data_context, user_prompt): the template of the branch,
\* or the AttributeError of calling a method the class does not define
GenerateResponse(fe, prompt) ==
    LET category == ResponseCategory(fe, prompt)
    IN  IF HasTemplate(fe, category) THEN Template(prompt, category)
        ELSE SystemError(prompt, TRUE, category, "AttributeError")

\* the prompts a user types
Prompts ==
    {<<"H", "o", "t", " ", "v", "s", " ", "s", "a", "f", "e", " ", "a", "r", "e", "a">>,
     <<"C", "o", "m", "p", "a", "r", "e", " ", "r", "i", "s", "k">>,
     <<"S", "a", "f", "e", " ", "l", "o", "c", "a", "t", "i", "o", "n">>,
     <<"W", "h", "i", "c", "h", " ", "a", "r", "e", "a">>,
     <<"S", "h", "o", "w", " ", "d", "a", "t", "a">>,
     <<"I", "s", " ", "i", "t", " ", "w", "a", "r", "m">>}

----------------------------------------------------------------------------
(* The chart: create_visualization *)

NoChart == [kind |-> "none", rows |-> <<>>]

\* create_visualization returned None
Absent == [kind |-> "absent", rows |-> <<>>]

\* px.bar over the rows of a summary, px.line over the rows of a trend
Bar(rows) == [kind |-> "bar", rows |-> rows]
Line(rows) == [kind |-> "line", rows |-> rows]

\* app.py, the bar chart of "All Regions", given what the second call of
\* get_air_quality_summary did: None for an exception or an empty frame.
\* px.bar over the columns Avg_PM2_5 and Avg_Temperature of which one holds
\* None only gives a chart or raises (which the except turns into None).
AppBar(res) ==
    IF res.status = "error" \/ res.rows = <<>> THEN { Absent }
    ELSE IF IsNone(res.rows, "Avg_PM2_5") # IsNone(res.rows, "Avg_Temperature")
         THEN { Absent, Bar(res.rows) }
    ELSE { Bar(res.rows) }

\* app.py, the line chart of one region, given what get_pollutant_trends did
AppLine(res) ==
    IF res.status = "error" \/ res.rows = <<>> THEN Absent ELSE Line(res.rows)

\* app.py, AirQualityAnalyzer.create_visualization(region, days): it queries
\* the pool itself
AppCreateVisualization(st, coll, db, region, days, now) ==
    IF region = "All Regions"
    THEN UNION { AppBar(res) : res \in GetAirQualitySummary(st, coll, db, region, days, now) }
    ELSE { AppLine(res) : res \in GetPollutantTrends(st, coll, db, region, days, now) }

\* application.py: the trend of the line chart, a value per day of the window
\* drawn around the base PM2.5 of the region, its draws starting in state s
MockTrend(region, days, now, s) ==
    [k \in 1..days |->
        [Date |-> DateOf(now) - (days - k + 1),
         PM2_5 |-> FracMax(FromInt(100),
                           Varied(base_data[region].pm25, Frac(20, 100), s + k - 1))]]

\* application.py, AirQualityAnalyzer.create_visualization(region, days) with
\* the generator in state s: it calls generate_mock_summary itself, then draws
\* the bar chart from those rows or the line chart from a trend; an exception
\* gives None
MockCreateVisualization(region, days, now, s) ==
    LET res == GenerateMockSummary(region, days, now, s)
    IN  IF res.status = "error" THEN Absent
        ELSE IF region = "All Regions" THEN Bar(res.rows)
        ELSE IF ~Known(region) THEN Absent
        ELSE Line(MockTrend(region, days, now, AfterRows(region, s)))

\* the generator state after create_visualization of application.py
AfterVisualization(region, days, s) ==
    IF GenerateMockSummary(region, days, 0, s).status = "error" THEN s
    ELSE IF region = "All Regions" \/ ~Known(region) THEN AfterRows(region, s)
    ELSE Advance(AfterRows(region, s), days)

----------------------------------------------------------------------------
(* State machine *)

Frontends == {"app", "application", "streamlit"}

\* region values the operations are called with: None or '' (""), the choices
\* of the dropdown, and a name no table holds
RegionInputs == {"", "All Regions", "Delta", "Sinai", "Nubia"}
DaysInputs == 1..MaxDays

\* region values the analyze button sends: choices of the dropdown (every
\* region and one of the regions)
AnalyzeRegions == {"All Regions", "Delta"}

NoCall ==
    [op |-> "none", region |-> "", days |-> 0, now |-> 0,
     status |-> "none", error |-> "", rows |-> <<>>, connect |-> NoConnect,
     attempts |-> 0, queries |-> 0]

Called(op, region, days, now, res) ==
    [op |-> op, region |-> region, days |-> days, now |-> now,
     status |-> res.status, error |-> res.error, rows |-> res.rows, connect |-> NoConnect,
     attempts |-> 0, queries |-> 0]

\* a call that went through execute_query: pyodbc.connect was called with the
\* connection string built from the environment
Connected(c, env) ==
    [c EXCEPT !.connect = ConnectionString(env),
              !.attempts = ConnectAttempts(c),
              !.queries = QueriesRun(c)]

\* the environment of the process: every variable set, or the credential pair
\* left out
Environments == { SynapseVariables, SynapseVariables \ {"SYNAPSE_USERNAME", "SYNAPSE_PASSWORD"} }

\* A process runs one of the three scripts.  Only app.py has an environment to
\* read, a store, a pool collation and connections; only the other two draw
\* random numbers.  A pool does not accept the placeholder credentials:
\* without the credential pair in the environment, connect raises.
Init ==
    /\ frontend \in Frontends
    /\ environ \in (IF frontend = "app" THEN Environments ELSE {{}})
    /\ store = {}
    /\ clock = StartHour
    /\ collation \in (IF frontend = "app" THEN {"CI", "CS"} ELSE {"none"})
    /\ dbStatus = (IF frontend # "app" THEN "none"
                   ELSE IF environ = SynapseVariables THEN "ok" ELSE "unreachable")
    /\ rng \in (IF frontend = "app" THEN {0} ELSE 0..(RngPeriod - 1))
    /\ call = NoCall
    /\ again = NoCall
    /\ context = NoContext
    /\ connections = 0
    /\ analysis = NoAnalysis
    /\ chart = NoChart

Idle == call = NoCall

\* the environment adds a row to the table (between calls)
InsertReading(r) ==
    /\ frontend = "app"
    /\ Idle
    /\ r \notin store
    /\ Cardinality(store) < MaxStore
    /\ store' = store \cup {r}
    /\ UNCHANGED <<frontend, environ, clock, collation, dbStatus, rng, call, again, context,
                   connections, analysis, chart>>

\* the pool becomes reachable, unreachable, or loses the table (between calls)
SetDbStatus(d) ==
    /\ frontend = "app"
    /\ environ = SynapseVariables
    /\ Idle
    /\ d # dbStatus
    /\ dbStatus' = d
    /\ UNCHANGED <<frontend, environ, store, clock, collation, rng, call, again, context,
                   connections, analysis, chart>>

\* an hour passes (between calls)
Tick ==
    /\ Idle
    /\ clock < StartHour + MaxClock
    /\ clock' = clock + 1
    /\ UNCHANGED <<frontend, environ, store, collation, dbStatus, rng, call, again, context,
                   connections, analysis, chart>>

\* the caller is done with the rows, the report, the chart and the exception
\* it was given; a connection that the traceback of the exception kept alive
\* is finalised with it
Drop ==
    /\ ~Idle
    /\ call' = NoCall
    /\ again' = NoCall
    /\ context' = NoContext
    /\ connections' = 0
    /\ analysis' = NoAnalysis
    /\ chart' = NoChart
    /\ UNCHANGED <<frontend, environ, store, clock, collation, dbStatus, rng>>

\* app.py: AirQualityQueries.get_air_quality_summary(region, days); the
\* exception of execute_query reaches the caller
AppGetAirQualitySummary(region, days) ==
    /\ frontend = "app"
    /\ Idle
    /\ \E res \in GetAirQualitySummary(store, collation, dbStatus, region, days, clock) :
          /\ call' = Connected(Called("get_air_quality_summary", region, days, clock, res),
                               environ)
          /\ connections' = connections + LeftOpen(res)
    /\ UNCHANGED <<frontend, environ, store, clock, collation, dbStatus, rng, again, context,
                   analysis, chart>>

\* app.py: AirQualityAnalyzer.prepare_data_context(region, days); the except
\* block ends with the exception released
AppPrepare(region, days) ==
    /\ frontend = "app"
    /\ Idle
    /\ \E res \in GetAirQualitySummary(store, collation, dbStatus, region, days, clock) :
          /\ call' = Connected(Called("get_air_quality_summary", region, days, clock, res),
                               environ)
          /\ context' = AppPrepareDataContext(res, days, clock)
    /\ UNCHANGED <<frontend, environ, store, clock, collation, dbStatus, rng, again,
                   connections, analysis, chart>>

\* app.py: analyze_air_quality(prompt, region, days, use_ai), the callback of
\* the button, for any prompt and either value of use_ai:
\* prepare_data_context, then create_visualization, then the response; an
\* exception that leaves analyze gives the error text and no chart
AppAnalyzeAirQuality(region, days) ==
    /\ frontend = "app"
    /\ Idle
    /\ \E res \in GetAirQualitySummary(store, collation, dbStatus, region, days, clock),
          fig \in AppCreateVisualization(store, collation, dbStatus, region, days, clock) :
          /\ call' = Connected(Called("get_air_quality_summary", region, days, clock, res),
                               environ)
          /\ context' = AppPrepareDataContext(res, days, clock)
          /\ \E prompt \in Prompts, use_ai \in BOOLEAN :
                LET answer == IF use_ai THEN GenerateResponse("app", prompt)
                              ELSE Summary(prompt)
                IN  /\ analysis' = answer
                    /\ chart' = IF answer.kind = "system_error" THEN Absent ELSE fig
    /\ UNCHANGED <<frontend, environ, store, clock, collation, dbStatus, rng, again,
                   connections>>

\* application.py: MockAirQualityData.generate_mock_summary(region, days)
MockGenerateSummary(region, days) ==
    /\ frontend = "application"
    /\ Idle
    /\ LET res == GenerateMockSummary(region, days, clock, rng)
       IN  /\ call' = Called("generate_mock_summary", region, days, clock, res)
           /\ rng' = IF res.status = "ok" THEN AfterRows(region, rng) ELSE rng
    /\ UNCHANGED <<frontend, environ, store, clock, collation, dbStatus, again, context,
                   connections, analysis, chart>>

\* application.py: AirQualityAnalyzer.prepare_data_context(region, days)
MockPrepare(region, days) ==
    /\ frontend = "application"
    /\ Idle
    /\ LET res == GenerateMockSummary(region, days, clock, rng)
       IN  /\ call' = Called("generate_mock_summary", region, days, clock, res)
           /\ rng' = IF res.status = "ok" THEN AfterRows(region, rng) ELSE rng
           /\ context' = MockPrepareDataContext(res, days, clock)
    /\ UNCHANGED <<frontend, environ, store, clock, collation, dbStatus, again,
                   connections, analysis, chart>>

\* application.py: analyze_air_quality(prompt, region, days, use_ai):
\* prepare_data_context, then create_visualization with the generator where
\* prepare_data_context left it, then the response
MockAnalyzeAirQuality(prompt, region, days, use_ai) ==
    /\ frontend = "application"
    /\ Idle
    /\ LET res == GenerateMockSummary(region, days, clock, rng)
           after == AfterRows(region, rng)
       IN  /\ call' = Called("generate_mock_summary", region, days, clock, res)
           /\ context' = MockPrepareDataContext(res, days, clock)
           /\ IF res.status = "error"
              THEN /\ analysis' = SystemError(prompt, use_ai, "", res.error)
                   /\ chart' = Absent
                   /\ rng' = rng
              ELSE /\ analysis' = IF use_ai THEN GenerateResponse("application", prompt)
                                  ELSE Summary(prompt)
                   /\ chart' = MockCreateVisualization(region, days, clock, after)
                   /\ rng' = AfterVisualization(region, days, after)
    /\ UNCHANGED <<frontend, environ, store, clock, collation, dbStatus, again, connections>>

\* streamlit_app.py: EgyptAirQualityAI.get_environmental_data(region, days)
StreamlitGetData(region, days) ==
    /\ frontend = "streamlit"
    /\ Idle
    /\ call' = Called("get_environmental_data", region, days, clock,
                      GetEnvironmentalData(region, clock, rng))
    /\ rng' = AfterRows(region, rng)
    /\ UNCHANGED <<frontend, environ, store, clock, collation, dbStatus, again, context,
                   connections, analysis, chart>>

\* streamlit_app.py: main() with the analyze button pressed and the prompt
\* typed: the quick metrics, then generate_ai_analysis
StreamlitAnalyze(region, days, prompt) ==
    /\ frontend = "streamlit"
    /\ Idle
    /\ LET res == GetEnvironmentalData(region, clock, rng)
           category == ResponseCategory("streamlit", prompt)
       IN  /\ call' = Called("get_environmental_data", region, days, clock, res)
           /\ context' = StreamlitContext(res, days, clock, category)
           /\ analysis' = Template(prompt, category)
    /\ rng' = AfterRows(region, rng)
    /\ UNCHANGED <<frontend, environ, store, clock, collation, dbStatus, again,
                   connections, chart>>

\* the data operation of call, called a second time with the same region and
\* days, the store and the clock being as they were
CallAgain ==
    /\ ~Idle
    /\ again = NoCall
    /\ analysis = NoAnalysis
    /\ \/ /\ frontend = "app"
          /\ \E res \in GetAirQualitySummary(store, collation, dbStatus,
                                             call.region, call.days, clock) :
                /\ again' = Connected(Called(call.op, call.region, call.days, clock, res),
                                      environ)
                /\ connections' = connections + LeftOpen(res)
          /\ rng' = rng
       \/ /\ frontend = "application"
          /\ LET res == GenerateMockSummary(call.region, call.days, clock, rng)
             IN  /\ again' = Called(call.op, call.region, call.days, clock, res)
                 /\ rng' = IF res.status = "ok" THEN AfterRows(call.region, rng) ELSE rng
          /\ connections' = connections
       \/ /\ frontend = "streamlit"
          /\ again' = Called(call.op, call.region, call.days, clock,
                             GetEnvironmentalData(call.region, clock, rng))
          /\ rng' = AfterRows(call.region, rng)
          /\ connections' = connections
    /\ UNCHANGED <<frontend, environ, store, clock, collation, dbStatus, call, context,
                   analysis, chart>>

Next ==
    \/ \E r \in ReadingPool : InsertReading(r)
    \/ \E d \in {"ok", "unreachable", "noschema"} : SetDbStatus(d)
    \/ Tick
    \/ Drop
    \/ \E region \in RegionInputs, days \in DaysInputs : AppGetAirQualitySummary(region, days)
    \/ \E region \in RegionInputs, days \in DaysInputs : AppPrepare(region, days)
    \/ \E region \in AnalyzeRegions, days \in DaysInputs : AppAnalyzeAirQuality(region, days)
    \/ \E region \in RegionInputs, days \in DaysInputs : MockGenerateSummary(region, days)
    \/ \E region \in RegionInputs, days \in DaysInputs : MockPrepare(region, days)
    \/ \E prompt \in Prompts, region \in RegionInputs, days \in DaysInputs,
          use_ai \in BOOLEAN : MockAnalyzeAirQuality(prompt, region, days, use_ai)
    \/ \E region \in RegionInputs, days \in DaysInputs : StreamlitGetData(region, days)
    \/ \E region \in RegionInputs, days \in DaysInputs, prompt \in Prompts :
          StreamlitAnalyze(region, days, prompt)
    \/ CallAgain

Spec == Init /\ [][Next]_vars

----------------------------------------------------------------------------
(* Properties *)

\* the bands of a number v of hundredths: up to lo units, above lo up to hi,
\* above hi
BandOf(v, lo, hi) ==
    IF v.num <= lo * 100 * v.den THEN "Good"
    ELSE IF v.num <= hi * 100 * v.den THEN "Moderate"
    ELSE "Poor"

ReportShown == context.kind = "report" /\ ~context.noData /\ call.status = "ok"
MetricsShown == context.kind = "metrics" /\ ~context.noData

\* the rows of the store that lie in the window that ends at the time of the
\* call and starts `days` days before it, both ends included
InWindow(r, c) == c.now - c.days * HoursPerDay <= r.timestamp /\ r.timestamp <= c.now

\* the window rows the region filter of the call asks for (exact spelling)
Wanted(c) ==
    { r \in store : InWindow(r, c) /\ (HasRegionFilter(c.region) => r.region = c.region) }

SummaryDone == frontend = "app" /\ call.op = "get_air_quality_summary" /\ dbStatus = "ok"

\* no row of the store is dated after the call, and names are compared exactly
Plain == collation = "CS" /\ \A r \in store : r.timestamp <= call.now

C3_ParseSkipDoesNotFail ==
    (SummaryDone /\ Plain) =>
       \A r \in Wanted(call) :
          (\E col \in Columns : ~Coerce(r, col).ok) =>
             /\ call.status = "ok"
             /\ \E i \in DOMAIN call.rows : call.rows[i].Region = r.region

AvgColumn(col) ==
    CASE col = "pm25" -> "Avg_PM2_5"
      [] col = "pm10" -> "Avg_PM10"
      [] col = "no2" -> "Avg_NO2"
      [] col = "co2" -> "Avg_CO2"
      [] col = "temperature" -> "Avg_Temperature"
      [] OTHER -> "Avg_Humidity"

\* the readings of g whose value in col converts to a number
Converting(g, col) == { r \in g : Coerce(r, col).ok /\ ~Coerce(r, col).value.null }

\* C4: for each region with readings in the window and each of the six
\* quantities, the average returned is the mean of the readings of the region
\* whose value converts; the values that do not convert are left out.
C4_MeanOfConverting ==
    (SummaryDone /\ Plain) =>
       \A r \in Wanted(call) : \A col \in Columns :
          LET g == { q \in Wanted(call) : q.region = r.region }
          IN  Converting(g, col) # {} =>
                 \E i \in DOMAIN call.rows :
                    /\ call.rows[i].Region = r.region
                    /\ call.rows[i][AvgColumn(col)] = AvgOf(Converting(g, col), col)

\* C5: the reading count of a region is the number of its readings in the
\* window, whether or not a measurement of them failed to convert.
C5_CountOfWindow ==
    (SummaryDone /\ Plain) =>
       /\ \A i \in DOMAIN call.rows :
             call.rows[i].Readings_Count =
                Cardinality({ q \in Wanted(call) : q.region = call.rows[i].Region })
       /\ \A r \in Wanted(call) :
             \E i \in DOMAIN call.rows :
                /\ call.rows[i].Region = r.region
                /\ call.rows[i].Readings_Count =
                      Cardinality({ q \in Wanted(call) : q.region = r.region })

\* C6: every row the summary returns names a region with at least one reading
\* in the window, and has a count of at least one.
C6_RowsHaveReadings ==
    (SummaryDone /\ call.status = "ok") =>
       \A i \in DOMAIN call.rows :
          /\ call.rows[i].Readings_Count >= 1
          /\ \E r \in store : r.region = call.rows[i].Region /\ InWindow(r, call)

\* C7: with a region name as filter, only readings whose region is exactly that
\* name are aggregated: at most one row, named as requested, counting those
\* readings alone.
C7_ExactRegion ==
    (call.status = "ok" /\ HasRegionFilter(call.region)) =>
       /\ Len(call.rows) <= 1
       /\ \A i \in DOMAIN call.rows :
             /\ call.rows[i].Region = call.region
             /\ frontend = "app" =>
                   call.rows[i].Readings_Count =
                      Cardinality({ r \in store : InCutoff(r, call.days, call.now)
                                                  /\ r.region = call.region })

\* C8: the rows of every data source come one per region in ascending order of
\* the region name.
C8_AscendingRegions ==
    call.status = "ok" =>
       \A i, j \in DOMAIN call.rows :
          i < j => /\ NameRank(call.rows[i].Region) <= NameRank(call.rows[j].Region)
                   /\ call.rows[i].Region # call.rows[j].Region

\* C9: the data operation called twice with the same region and days, the
\* store and the time unchanged, gives the same rows in the same order.
C9_SameTwice ==
    again.op # "none" => (again.status = call.status /\ again.rows = call.rows)

\* C10: when the data operation yields no row, prepare_data_context returns a
\* report with the no-data marker: not an error text, not an exception, not a
\* report that only lacks sections.
C10_NoDataMarker ==
    (frontend \in {"app", "application"} /\ context.kind # "none"
        /\ call.status = "ok" /\ call.rows = <<>>) =>
       (context.kind = "report" /\ context.noData /\ context.error = "")

\* app.py asked for Sinai, of which the store holds no row, while it holds others
C10_Witness ==
    /\ frontend = "app"
    /\ store # {}
    /\ call.region = "Sinai"
    /\ call.status = "ok"
    /\ call.rows = <<>>
    /\ context.kind = "report"
    /\ context.noData

\* C11: every connection execute_query opens is closed when it returns or
\* raises: after any sequence of calls the process holds no open connection.
C11_ConnectionsClosed == connections = 0

\* C12: the report operation tells a pool that cannot be reached from a pool
\* that is reached and lacks the table or a column: the outcome it gives for
\* the second is not the outcome it gives for the first.
C12_DistinctFailures ==
    (frontend = "app" /\ context.kind # "none" /\ call.error = "schema") =>
       context.kind # AppPrepareDataContext(Raised("connect"), call.days, call.now).kind

\* C13: prepare_data_context gives the no-data marker only when the query ran
\* and returned no row, and the connection-error text only when reaching the
\* pool failed.
C13_MessagesNotConflated ==
    (frontend = "app" /\ context.kind # "none") =>
       /\ context.noData => (call.status = "ok" /\ call.rows = <<>>)
       /\ context.kind = "connection_error" =>
             (call.status = "error" /\ call.error = "connect")

\* C14: when a variable of the endpoint, the database or the credential pair
\* is not set, no connection is attempted and the report says that the
\* credentials are not configured.
C14_CredentialsNotConfigured ==
    (frontend = "app" /\ environ # SynapseVariables /\ call.op # "none") =>
       /\ call.connect = NoConnect
       /\ context.kind # "none" => context.error = "credentials not configured"

\* the categories that have keywords, in the order of their priority
Priority == <<"temperature", "comparison", "health", "region">>

WordsOf(fe, category) ==
    CASE category = "temperature" -> TemperatureWords(fe)
      [] category = "comparison" -> ComparisonWords(fe)
      [] category = "health" -> HealthWords(fe)
      [] OTHER -> RegionWords(fe)

\* the places in Priority of the categories a keyword of which the prompt holds
Matching(fe, prompt) ==
    { k \in DOMAIN Priority : AnyWord(Lower(prompt), WordsOf(fe, Priority[k])) }

\* C15: the category a prompt is answered in is the first of temperature,
\* comparison, health, region whose keywords the prompt holds, and general
\* when it holds none.
C15_FirstMatchWins ==
    analysis.category # "" =>
       LET m == Matching(frontend, analysis.prompt)
       IN  analysis.category =
              IF m = {} THEN "general"
              ELSE Priority[CHOOSE k \in m : \A j \in m : k <= j]

\* a prompt of app.py that holds keywords of comparison and of health, answered
\* with the comparison template
C15_Witness ==
    /\ frontend = "app"
    /\ analysis.kind = "template"
    /\ analysis.category = "comparison"
    /\ {2, 3} \subseteq Matching(frontend, analysis.prompt)

\* C16: generate_response answers every prompt with a template: none of the
\* five categories ends in an error.
C16_EveryCategoryHasTemplate ==
    analysis.category # "" => analysis.kind = "template"

\* C17: the period of every row is the earliest and the latest timestamp of
\* the readings that the row counts.
C17_PeriodObserved ==
    (frontend \in {"app", "application"} /\ call.status = "ok") =>
       \A i \in DOMAIN call.rows :
          \E g \in SUBSET store :
             /\ g # {}
             /\ \A r \in g : CollationEq(collation, r.region, call.rows[i].Region)
             /\ call.rows[i].Readings_Count = Cardinality(g)
             /\ call.rows[i].Period_Start = MinTs(g)
             /\ call.rows[i].Period_End = MaxTs(g)

\* the rows of the store the region filter of the call keeps, as the pool
\* compares names
Filtered(c) ==
    { r \in store : HasRegionFilter(c.region) => CollationEq(collation, r.region, c.region) }

\* the rows of rs that go into the result row named `name`
Named(rs, name) == { r \in rs : CollationEq(collation, r.region, name) }

\* C18: the start of the window is included.  A reading dated exactly `days`
\* days before the call, or later up to the call, is counted by the row of its
\* region and lies in the period of that row; no row counts a reading dated
\* earlier or starts before the window.
C18_WindowStartInclusive ==
    (SummaryDone /\ call.status = "ok") =>
       LET inside == { r \in Filtered(call) : InWindow(r, call) }
           later == { r \in Filtered(call) : r.timestamp > call.now }
       IN  /\ \A r \in inside :
                 \E i \in DOMAIN call.rows :
                    /\ CollationEq(collation, r.region, call.rows[i].Region)
                    /\ call.rows[i].Period_Start <= r.timestamp
                    /\ r.timestamp <= call.rows[i].Period_End
           /\ \A i \in DOMAIN call.rows :
                 /\ call.rows[i].Period_Start >= call.now - call.days * HoursPerDay
                 /\ call.rows[i].Readings_Count
                       >= Cardinality(Named(inside, call.rows[i].Region))
                 /\ call.rows[i].Readings_Count
                       <= Cardinality(Named(inside \cup later, call.rows[i].Region))

\* a reading dated exactly one window before the call starts the period of the
\* row that counts it
C18_Witness ==
    /\ SummaryDone
    /\ call.status = "ok"
    /\ \E r \in store, i \in DOMAIN call.rows :
          /\ r.timestamp = call.now - call.days * HoursPerDay
          /\ call.rows[i].Region = r.region
          /\ call.rows[i].Period_Start = r.timestamp
          /\ call.rows[i].Readings_Count >= 1

\* C19: the window ends at the time of the call: no reading dated later is
\* counted, averaged or taken for the period of a row.
C19_NoFutureReading ==
    (SummaryDone /\ call.status = "ok") =>
       \A i \in DOMAIN call.rows :
          /\ call.rows[i].Period_End <= call.now
          /\ call.rows[i].Readings_Count =
                Cardinality(Named({ r \in Filtered(call) : InWindow(r, call) },
                                  call.rows[i].Region))

\* C20: the chart analyze gives is drawn from the rows the report was
\* formatted from.
C20_ChartFromReportRows ==
    chart.kind \in {"bar", "line"} => chart.rows = call.rows

\* C21: the three scripts put every prompt in the same category: the category
\* a prompt is answered in is the one each of the other scripts would choose.
C21_SameCategoryEverywhere ==
    analysis.category # "" =>
       \A fe \in Frontends : ResponseCategory(fe, analysis.prompt) = analysis.category

\* C22: formatting never fails: whatever rows the data operation returned,
\* none, or rows in which an average is absent, prepare_data_context yields a
\* report.
C22_FormattingTotal ==
    (frontend \in {"app", "application"} /\ context.kind # "none" /\ call.status = "ok") =>
       context.kind = "report"

Escapes ==
    \/ frontend = "app" /\ analysis.use_ai /\ analysis.category = "region"
    \/ frontend = "application" /\ call.status = "error"

\* C24: analyze_air_quality never raises: it returns a text and a chart or
\* None, and the error text with None exactly when an exception left analyze.
C24_NeverRaises ==
    (frontend \in {"app", "application"} /\ analysis.kind # "none") =>
       /\ analysis.kind \in {"template", "summary", "system_error"}
       /\ chart.kind \in {"bar", "line", "absent"}
       /\ Escapes <=> analysis.kind = "system_error"
       /\ analysis.kind = "system_error" => chart = Absent

\* app.py with a pool that lacks the table and a prompt of the category
\* without template: the error text and no chart
C24_Witness ==
    /\ frontend = "app"
    /\ dbStatus = "noschema"
    /\ analysis.use_ai
    /\ analysis.category = "region"
    /\ analysis.kind = "system_error"
    /\ chart = Absent

\* C25: a PM2.5 or PM10 average that is NaN is labelled Poor by
\* prepare_data_context, never Good or Moderate.
C25_NanIsPoor ==
    ReportShown =>
       \A i \in DOMAIN context.sections :
          /\ call.rows[i].Avg_PM2_5.null => context.sections[i].pm25_status = "Poor"
          /\ call.rows[i].Avg_PM10.null => context.sections[i].pm10_status = "Poor"

\* a report of app.py with a region whose readings hold no PM2.5 and no PM10
\* value, next to a region that has them
C25_Witness ==
    /\ frontend = "app"
    /\ ReportShown
    /\ \E i, j \in DOMAIN context.sections :
          /\ call.rows[i].Avg_PM2_5.null
          /\ call.rows[i].Avg_PM10.null
          /\ context.sections[i].pm25_status = "Poor"
          /\ context.sections[i].pm10_status = "Poor"
          /\ ~call.rows[j].Avg_PM2_5.null

====
